---- MODULE Spec2Model ----
(***************************************************************************)
(* A model of pe32sunspecpy_pub.py: the Modbus TCP frame codec, the        *)
(* register buffer and its type decoders, the register-map resolver with   *)
(* its scale-factor post-processing, and the request/response cycle.       *)
(*                                                                         *)
(* Python values are records tagged by `kind`:                             *)
(*   int    [kind, hi, lo]        the integer hi * 65536 + lo, 0 <= lo     *)
(*   bytes  [kind, octets]                                                 *)
(*   str    [kind, text]          text given by its UTF-8 octets           *)
(*   enum   [kind, member]        a SunspecInverterStatus member           *)
(*   tuple  [kind, items]         a tuple of ints                          *)
(*   dec    [kind, cls, neg, m, z, e, unit, exact]                         *)
(*                                a Decimal: (-1)^neg * m * 10^(z + e),    *)
(*                                coefficient m * 10^z, exponent e         *)
(*   exc    [kind, exc]           a raised exception                       *)
(***************************************************************************)
EXTENDS Integers, Sequences, FiniteSets, TLC

VARIABLES pc, bytes_, response, registers, off, mapping, unit, result,
          transid, written, words

vars == <<pc, bytes_, response, registers, off, mapping, unit, result,
          transid, written, words>>

(***************************************************************************)
(* Bounds of the model.                                                    *)
(***************************************************************************)
MaxRegs == 3
MaxPayload == 4
MaxCount == 3
MaxEntries == 3
MaxCycles == 2

(***************************************************************************)
(* Python values.                                                          *)
(***************************************************************************)
None == [kind |-> "none"]

Raise(e) == [kind |-> "exc", exc |-> e]

IsExc(v) == v.kind = "exc"

PyInt(hi, lo) == [kind |-> "int", hi |-> hi, lo |-> lo]

IntOf(n) == PyInt(n \div 65536, n % 65536)

PyBytes(s) == [kind |-> "bytes", octets |-> s]

PyStr(s) == [kind |-> "str", text |-> s]

PyTuple(s) == [kind |-> "tuple", items |-> s]

Min(a, b) == IF a < b THEN a ELSE b

Max(a, b) == IF a > b THEN a ELSE b

(* s[start:stop] of Python, for any integers start and stop. *)
Slice(s, start, stop) ==
    LET n  == Len(s)
        lo == IF start < 0 THEN Max(start + n, 0) ELSE Min(start, n)
        hi == IF stop < 0 THEN Max(stop + n, 0) ELSE Min(stop, n)
    IN  IF lo < hi THEN SubSeq(s, lo + 1, hi) ELSE <<>>

(* s[start:] of Python. *)
SliceFrom(s, start) == Slice(s, start, Len(s))

(***************************************************************************)
(* struct.unpack with the formats the program uses.                        *)
(***************************************************************************)
BE16(b) == b[1] * 256 + b[2]

Signed16(u) == IF u >= 32768 THEN u - 65536 ELSE u

unpack_H(b) == IF Len(b) # 2 THEN Raise("struct.error") ELSE IntOf(BE16(b))

unpack_h(b) ==
    IF Len(b) # 2 THEN Raise("struct.error") ELSE IntOf(Signed16(BE16(b)))

unpack_I(b) ==
    IF Len(b) # 4 THEN Raise("struct.error")
    ELSE PyInt(BE16(SubSeq(b, 1, 2)), BE16(SubSeq(b, 3, 4)))

unpack_i(b) ==
    IF Len(b) # 4 THEN Raise("struct.error")
    ELSE PyInt(Signed16(BE16(SubSeq(b, 1, 2))), BE16(SubSeq(b, 3, 4)))

(* struct.unpack('>' + 'H' * len_, b): a tuple of len_ unsigned shorts;  *)
(* 'H' * len_ is the empty string for len_ <= 0.                            *)
unpack_Hs(len_, b) ==
    LET n == Max(len_, 0)
    IN  IF Len(b) # 2 * n THEN Raise("struct.error")
        ELSE PyTuple([k \in 1..n |-> IntOf(BE16(SubSeq(b, 2 * k - 1, 2 * k)))])

(***************************************************************************)
(* class Registers: the raw octets of one or more registers.               *)
(***************************************************************************)
packed(packed_, offset, octets) ==
    Slice(packed_, offset * 2, offset * 2 + octets)

get_u16_list(packed_, start, stop) ==
    unpack_Hs(stop - start, Slice(packed_, start * 2, stop * 2))

(* Registers.__getitem__ with an int. *)
getitem_int(packed_, i) ==
    LET values == get_u16_list(packed_, i, i + 1)
    IN  IF IsExc(values) THEN values ELSE values.items[1]

(* Registers.__getitem__ with the slice [:] (start, stop and step None). *)
getitem_all(packed_) == get_u16_list(packed_, 0, Len(packed_) \div 2)

(***************************************************************************)
(* class SunspecInverterStatus(Enum) and class RType.                      *)
(***************************************************************************)
StatusValues == 1..8

(* An enum that passes an unknown code through as the raw number. *)
SunspecInverterStatus_passthrough(v) ==
    IF v.hi = 0 /\ v.lo \in 1..8
    THEN [kind |-> "enum", member |-> v.lo]
    ELSE v

SunspecInverterStatus(v) ==
    IF v.hi = 0 /\ v.lo \in StatusValues
    THEN [kind |-> "enum", member |-> v.lo]
    ELSE Raise("ValueError")

rstrip(s) ==
    LET keep == {k \in 1..Len(s) : s[k] \notin {0, 32}}
        last == IF keep = {} THEN 0 ELSE CHOOSE k \in keep : \A j \in keep : j <= k
    IN  SubSeq(s, 1, last)

(* The octet positions at which a well-formed UTF-8 sequence may start,    *)
(* given that one starts at position k: the position after it, or 0.       *)
Utf8Next(s, k) ==
    LET b == s[k]
        n == Len(s)
        Cont(j) == j <= n /\ s[j] >= 128 /\ s[j] <= 191
    IN  IF b < 128 THEN k + 1
        ELSE IF b >= 194 /\ b <= 223 THEN (IF Cont(k + 1) THEN k + 2 ELSE 0)
        ELSE IF b >= 224 /\ b <= 239
        THEN (IF Cont(k + 1) /\ Cont(k + 2)
                  /\ (b = 224 => s[k + 1] >= 160)
                  /\ (b = 237 => s[k + 1] <= 159)
              THEN k + 3 ELSE 0)
        ELSE IF b >= 240 /\ b <= 244
        THEN (IF Cont(k + 1) /\ Cont(k + 2) /\ Cont(k + 3)
                  /\ (b = 240 => s[k + 1] >= 144)
                  /\ (b = 244 => s[k + 1] <= 143)
              THEN k + 4 ELSE 0)
        ELSE 0

RECURSIVE Utf8Valid(_, _)
Utf8Valid(s, k) ==
    IF k > Len(s) THEN TRUE
    ELSE LET nxt == Utf8Next(s, k)
         IN  IF nxt = 0 THEN FALSE ELSE Utf8Valid(s, nxt)

decode_utf8(s) ==
    IF Utf8Valid(s, 1) THEN PyStr(s) ELSE Raise("UnicodeDecodeError")

U16 == [t |-> "U16", len |-> 2]
I16 == [t |-> "I16", len |-> 2]
U32 == [t |-> "U32", len |-> 4]
I32 == [t |-> "I32", len |-> 4]
CAST == [t |-> "CAST", len |-> 2]
STR(n) == [t |-> "STR", len |-> n]
BSTR(n) == [t |-> "BSTR", len |-> n]

RType_CAST(packed_, offset) ==
    LET v == unpack_H(packed(packed_, offset, 2))
    IN  IF IsExc(v) THEN v ELSE SunspecInverterStatus(v)

RType_BSTR(len, packed_, offset) == PyBytes(packed(packed_, offset, len))

RType_STR(len, packed_, offset) ==
    decode_utf8(rstrip(RType_BSTR(len, packed_, offset).octets))

RType_I16(packed_, offset) == unpack_h(packed(packed_, offset, 2))

RType_U16(packed_, offset) == unpack_H(packed(packed_, offset, 2))

RType_I32(packed_, offset) == unpack_i(packed(packed_, offset, 4))

RType_U32(packed_, offset) == unpack_I(packed(packed_, offset, 4))

(* type_(getter, offset): the call of a decoder. *)
CallType(type_, packed_, offset) ==
    CASE type_.t = "U16" -> RType_U16(packed_, offset)
      [] type_.t = "I16" -> RType_I16(packed_, offset)
      [] type_.t = "U32" -> RType_U32(packed_, offset)
      [] type_.t = "I32" -> RType_I32(packed_, offset)
      [] type_.t = "CAST" -> RType_CAST(packed_, offset)
      [] type_.t = "STR" -> RType_STR(type_.len, packed_, offset)
      [] type_.t = "BSTR" -> RType_BSTR(type_.len, packed_, offset)

(***************************************************************************)
(* class RegisterIface.                                                    *)
(***************************************************************************)
(* get without the subtraction of the base offset. *)
get_absolute_offset(off_, packed_, offset, type_) ==
    CallType(type_, packed_, offset)

get(off_, packed_, offset, type_) == CallType(type_, packed_, offset - off_)

(***************************************************************************)
(* decimal.Decimal under the default context (prec 28, Emax 999999), for   *)
(* the operations the program applies: Decimal(value), Decimal(10) ** x    *)
(* and a product with such a power.  A coefficient is its sequence of      *)
(* decimal digits, most significant first.                                 *)
(***************************************************************************)
Prec == 28
Emax == 999999
Etiny == 1 - Emax - Prec

Dec(cls, unit_, neg, digits, exp, inexact) ==
    [kind |-> "dec", cls |-> cls, unit |-> unit_, neg |-> neg,
     digits |-> digits, exp |-> exp, inexact |-> inexact]

Zeros(n) == [k \in 1..n |-> 0]

IsZero(d) == ~d.inexact /\ d.digits = <<0>>

(* The magnitude of an int, as [hi, lo]. *)
Mag(v) ==
    IF v.hi >= 0 THEN [hi |-> v.hi, lo |-> v.lo]
    ELSE IF v.lo = 0 THEN [hi |-> -v.hi, lo |-> 0]
    ELSE [hi |-> -v.hi - 1, lo |-> 65536 - v.lo]

RECURSIVE WideDigits(_)
WideDigits(m) ==
    IF m.hi = 0 /\ m.lo < 10 THEN <<m.lo>>
    ELSE LET x == (m.hi % 10) * 65536 + m.lo
         IN  Append(WideDigits([hi |-> m.hi \div 10, lo |-> x \div 10]), x % 10)

RECURSIVE DigitsValue(_)
DigitsValue(ds) ==
    IF ds = <<>> THEN 0
    ELSE 10 * DigitsValue(SubSeq(ds, 1, Len(ds) - 1)) + ds[Len(ds)]

(* Decimal(text): only the literals made of digits alone are modelled as   *)
(* numbers; every other text of the model's alphabets is no literal.       *)
DecimalOfStr(cls, text) ==
    IF text # <<>> /\ Len(text) <= 9 /\ \A k \in 1..Len(text) : text[k] \in 48..57
    THEN Dec(cls, "", FALSE,
             WideDigits(IntOf(DigitsValue([k \in 1..Len(text) |-> text[k] - 48]))),
             0, FALSE)
    ELSE Raise("InvalidOperation")

(* cls(value), for cls Decimal or DecimalWithUnit. *)
DecimalOf(cls, value) ==
    CASE value.kind = "int" ->
           Dec(cls, "", value.hi < 0, WideDigits(Mag(value)), 0, FALSE)
      [] value.kind = "dec" -> [value EXCEPT !.cls = cls, !.unit = ""]
      [] value.kind = "str" -> DecimalOfStr(cls, value.text)
      [] OTHER -> Raise("TypeError")

(* DecimalWithUnit.with_unit(value, unit). *)
with_unit(value, unit_) ==
    LET ret == DecimalOf("DecimalWithUnit", value)
    IN  IF IsExc(ret) THEN ret ELSE [ret EXCEPT !.unit = unit_]

(* Decimal(10) ** n for an integer n. *)
Pow10Int(n) ==
    IF n > Emax THEN Raise("Overflow")
    ELSE IF n < Etiny THEN Dec("Decimal", "", FALSE, <<0>>, Etiny, TRUE)
    ELSE IF n >= Prec THEN Dec("Decimal", "", FALSE, <<1>> \o Zeros(Prec - 1),
                               n - (Prec - 1), FALSE)
    ELSE IF n >= 0 THEN Dec("Decimal", "", FALSE, <<1>> \o Zeros(n), 0, FALSE)
    ELSE Dec("Decimal", "", FALSE, <<1>>, n, FALSE)

(* The value of an exact Decimal as an exponent: an integer n, a value     *)
(* beyond 10^7 in magnitude, or a value that is no integer.                *)
DecAsExponent(d) ==
    LET L  == Len(d.digits)
        ip == IF d.exp >= 0 THEN d.digits ELSE SubSeq(d.digits, 1, L + d.exp)
        fp == IF d.exp >= 0 THEN <<>> ELSE SubSeq(d.digits, Max(L + d.exp, 0) + 1, L)
    IN  IF d.digits = <<0>> THEN [is |-> "int", n |-> 0]
        ELSE IF \E k \in 1..Len(fp) : fp[k] # 0 THEN [is |-> "fraction", n |-> 0]
        ELSE IF Len(ip) + Max(d.exp, 0) > 7 THEN [is |-> "huge", n |-> 0]
        ELSE [is |-> "int",
              n |-> (IF d.neg THEN -1 ELSE 1)
                       * DigitsValue(ip) * 10 ^ Max(d.exp, 0)]

InexactDec == Dec("Decimal", "", FALSE, <<>>, 0, TRUE)

(* Decimal(10) ** x. *)
Pow10(x) ==
    CASE x.kind = "int" ->
           IF x.hi > 32767 THEN Raise("Overflow")
           ELSE Pow10Int(x.hi * 65536 + x.lo)
      [] x.kind = "dec" ->
           IF x.inexact THEN InexactDec
           ELSE LET a == DecAsExponent(x)
                IN  IF a.is = "int" THEN Pow10Int(a.n)
                    ELSE IF a.is = "fraction" THEN InexactDec
                    ELSE IF x.neg
                    THEN Dec("Decimal", "", FALSE, <<0>>, Etiny, TRUE)
                    ELSE Raise("Overflow")
      [] OTHER -> Raise("TypeError")

(* a * p, where p is a result of Pow10: zero, a power of ten or inexact.   *)
(* The product's coefficient is rounded to Prec digits.                    *)
MulPow10(a, p) ==
    IF a.digits = <<0>> \/ p.digits = <<0>>
    THEN Dec("Decimal", "", a.neg # p.neg, <<0>>,
             Max(Min(a.exp + p.exp, Emax - (Prec - 1)), Etiny),
             ~(IsZero(a) \/ IsZero(p)))
    ELSE IF a.inexact \/ p.inexact THEN InexactDec
    ELSE LET raw  == a.digits \o Zeros(Len(p.digits) - 1)
             drop == Max(Len(raw) - Prec, 0)
             kept == SubSeq(raw, 1, Len(raw) - drop)
             exp  == a.exp + p.exp + drop
         IN  IF exp + Len(kept) - 1 > Emax THEN Raise("Overflow")
             ELSE Dec("Decimal", "", a.neg # p.neg, kept, exp,
                      \E k \in (Len(kept) + 1)..Len(raw) : raw[k] # 0)

(***************************************************************************)
(* OrderedDict: a sequence of [key, value] in insertion order.  A field    *)
(* name is the sequence of its characters.                                 *)
(***************************************************************************)
DictHas(d, key) == \E k \in 1..Len(d) : d[k].key = key

DictGet(d, key) == d[CHOOSE k \in 1..Len(d) : d[k].key = key].value

DictSet(d, key, value) ==
    IF DictHas(d, key)
    THEN [k \in 1..Len(d) |->
             IF d[k].key = key THEN [key |-> key, value |-> value] ELSE d[k]]
    ELSE Append(d, [key |-> key, value |-> value])

(* del that leaves the key in place. *)
DictDel_keeps_key(d, key) == d

RECURSIVE DictDel(_, _)
DictDel(d, key) ==
    IF d = <<>> THEN <<>>
    ELSE IF Head(d).key = key THEN Tail(d)
    ELSE <<Head(d)>> \o DictDel(Tail(d), key)

DictKeys(d) == [k \in 1..Len(d) |-> d[k].key]

PyDict(d) == [kind |-> "dict", items |-> d]

SF == <<"_", "S", "F">>

endswith_SF(key) == Len(key) >= 3 /\ SubSeq(key, Len(key) - 2, Len(key)) = SF

RECURSIVE SelectSF(_)
SelectSF(keys) ==
    IF keys = <<>> THEN <<>>
    ELSE (IF endswith_SF(Head(keys)) THEN <<Head(keys)>> ELSE <<>>)
             \o SelectSF(Tail(keys))

(* The loop of RegisterIface.mapping2dict over the items before the END    *)
(* marker, from the record built so far.                                   *)
RECURSIVE FillDict(_, _, _, _)
FillDict(off_, packed_, items, ret) ==
    IF items = <<>> THEN PyDict(ret)
    ELSE LET item == Head(items)
         IN  IF Len(item) < 3 THEN Raise("IndexError")
             ELSE LET args  == SubSeq(item, 4, Len(item))
                      value == get(off_, packed_, item[1], item[3])
                      final == IF args = <<>> THEN value
                               ELSE IF Len(args) # 1 THEN Raise("AssertionError")
                               ELSE IF value.kind \notin {"dec", "int"}
                               THEN Raise("AssertionError")
                               ELSE with_unit(value, args[1])
                  IN  IF IsExc(value) THEN value
                      ELSE IF IsExc(final) THEN final
                      ELSE FillDict(off_, packed_, Tail(items),
                                    DictSet(ret, item[2], final))

(* RegisterIface.mapping2dict. *)
RegisterIface_mapping2dict(off_, packed_, mapping_) ==
    IF mapping_ = <<>> \/ Len(mapping_[Len(mapping_)]) # 1
    THEN Raise("AssertionError")
    ELSE FillDict(off_, packed_, SubSeq(mapping_, 1, Len(mapping_) - 1), <<>>)

(* The scale-factor round without the DecimalWithUnit branch. *)
ApplyScale_drops_unit(ret, sf_key) ==
    LET key == SubSeq(sf_key, 1, Len(sf_key) - 3)
        exp == Pow10(DictGet(ret, sf_key))
        old == DictGet(ret, key)
        value == LET d == DecimalOf("Decimal", old)
                 IN  IF IsExc(d) THEN d ELSE MulPow10(d, exp)
    IN  IF ~DictHas(ret, key) THEN Raise("AssertionError")
        ELSE IF IsExc(exp) THEN exp
        ELSE IF IsExc(value) THEN value
        ELSE [kind |-> "dict",
              items |-> DictDel(DictSet(ret, key, value), sf_key)]

(* One round of the scale-factor loop of SunspecRegs.mapping2dict. *)
ApplyScale(ret, sf_key) ==
    LET key == SubSeq(sf_key, 1, Len(sf_key) - 3)
        exp == Pow10(DictGet(ret, sf_key))
        old == DictGet(ret, key)
        value ==
            IF old.kind = "dec" /\ old.cls = "DecimalWithUnit"
            THEN LET prod == MulPow10(old, exp)
                 IN  IF IsExc(prod) THEN prod ELSE with_unit(prod, old.unit)
            ELSE LET d == DecimalOf("Decimal", old)
                 IN  IF IsExc(d) THEN d ELSE MulPow10(d, exp)
    IN  IF ~DictHas(ret, key) THEN Raise("AssertionError")
        ELSE IF IsExc(exp) THEN exp
        ELSE IF IsExc(value) THEN value
        ELSE PyDict(DictDel(DictSet(ret, key, value), sf_key))

RECURSIVE ScaleLoop(_, _)
ScaleLoop(ret, sf_keys) ==
    IF sf_keys = <<>> THEN PyDict(ret)
    ELSE LET r == ApplyScale(ret, Head(sf_keys))
         IN  IF IsExc(r) THEN r ELSE ScaleLoop(r.items, Tail(sf_keys))

(* SunspecRegs.mapping2dict. *)
mapping2dict(off_, packed_, mapping_) ==
    LET ret == RegisterIface_mapping2dict(off_, packed_, mapping_)
    IN  IF IsExc(ret) THEN ret
        ELSE ScaleLoop(ret.items, SelectSF(DictKeys(ret.items)))

(***************************************************************************)
(* class ModbusFrame.                                                      *)
(***************************************************************************)
(* bytes([...]): every element must be in range(0, 256). *)
bytes(s) ==
    IF \A k \in 1..Len(s) : s[k] \in 0..255 THEN PyBytes(s)
    ELSE Raise("ValueError")

(* ModbusFrame.__init__. *)
ModbusFrame(transid_, unitid, funccode, data) ==
    IF ~(0 <= transid_ /\ transid_ <= 65535) THEN Raise("AssertionError")
    ELSE [kind |-> "frame", transid |-> transid_, unitid |-> unitid,
          funccode |-> funccode, data |-> data]

read_multiple_registers(transid_, unitid, offset, count) ==
    LET data == bytes(<<offset \div 256, offset % 256,
                        count \div 256, count % 256>>)
    IN  IF IsExc(data) THEN data
        ELSE ModbusFrame(transid_, unitid, 3, data.octets)

(* unpack with the protocol id compared in its first octet alone. *)
unpack_first_protocol_octet(b) ==
    IF Len(b) < 8 THEN Raise("AssertionError")
    ELSE IF b[3] # 0 THEN Raise("AssertionError")
    ELSE LET transid_ == b[1] * 256 + b[1]
             datalen  == b[5] * 256 + b[6]
         IN  IF datalen < 2 THEN Raise("AssertionError")
             ELSE IF Len(b) < datalen + 6 THEN Raise("AssertionError")
             ELSE ModbusFrame(transid_, b[7], b[8], SliceFrom(b, 8))

(* ModbusFrame.unpack; bytes_[k] of Python is b[k + 1]. *)
unpack(b) ==
    IF Len(b) < 8 THEN Raise("AssertionError")
    ELSE IF ~(b[3] = b[4] /\ b[4] = 0) THEN Raise("AssertionError")
    ELSE LET transid_ == b[1] * 256 + b[1]
             datalen  == b[5] * 256 + b[6]
         IN  IF datalen < 2 THEN Raise("AssertionError")
             ELSE IF Len(b) < datalen + 6 THEN Raise("AssertionError")
             ELSE ModbusFrame(transid_, b[7], b[8], SliceFrom(b, 8))

(* data_as_registers slicing hlen octets instead of hlen registers. *)
data_as_registers_hlen_octets(frame) ==
    LET data == frame.data
    IN  IF data = <<>> THEN Raise("AssertionError")
        ELSE IF data[1] % 2 # 0 THEN Raise("AssertionError")
        ELSE LET hlen == data[1] \div 2
             IN  IF Len(data) < hlen + 1 THEN Raise("AssertionError")
                 ELSE [kind |-> "Registers",
                       packed |-> Slice(data, 1, 1 + hlen)]

(* ModbusFrame.data_as_registers: the octets of the Registers it returns. *)
data_as_registers(frame) ==
    LET data == frame.data
    IN  IF data = <<>> THEN Raise("AssertionError")
        ELSE IF data[1] % 2 # 0 THEN Raise("AssertionError")
        ELSE LET hlen == data[1] \div 2
             IN  IF Len(data) < hlen + 1 THEN Raise("AssertionError")
                 ELSE [kind |-> "Registers",
                       packed |-> Slice(data, 1, 1 + hlen * 2)]

(* pack with a data length that leaves out unit id and function code. *)
pack_data_length_only(frame) ==
    LET datalen == Len(frame.data)
        head == bytes(<<frame.transid \div 256, frame.transid % 256, 0, 0,
                        datalen \div 256, datalen % 256,
                        frame.unitid, frame.funccode>>)
    IN  IF IsExc(head) THEN head ELSE PyBytes(head.octets \o frame.data)

(* ModbusFrame.pack. *)
pack(frame) ==
    LET datalen == 1 + 1 + Len(frame.data)
        head == bytes(<<frame.transid \div 256, frame.transid % 256, 0, 0,
                        datalen \div 256, datalen % 256,
                        frame.unitid, frame.funccode>>)
    IN  IF IsExc(head) THEN head ELSE PyBytes(head.octets \o frame.data)

(***************************************************************************)
(* The register maps of the program.                                       *)
(***************************************************************************)
I_AC_Power == <<"I", "_", "A", "C", "_", "P", "o", "w", "e", "r">>

SUNSPEC_INVERTER_MODEL_ONLY_AC_POWER ==
    << <<40083, I_AC_Power, U16, "W">>,
       <<40084, I_AC_Power \o SF, I16>>,
       <<40085>> >>

(***************************************************************************)
(* Values of the variables a specification does not use.                   *)
(***************************************************************************)
NoResult == [op |-> "none"]

(***************************************************************************)
(* Actions on a register buffer: RegisterIface.get and                     *)
(* Registers.__getitem__.                                                  *)
(***************************************************************************)
FieldTypes == {U16, I16, U32, I32, CAST, STR(2), STR(4), BSTR(2), BSTR(4)}

Get ==
    /\ pc = "regs"
    /\ \E i \in -2..(MaxRegs + 1), type_ \in FieldTypes :
          result' = [op |-> "get", offset |-> off + i, type_ |-> type_,
                     value |-> get(off, registers, off + i, type_)]
    /\ pc' = "done"
    /\ UNCHANGED <<bytes_, response, registers, off, mapping, unit,
                   transid, written, words>>

GetItem ==
    /\ pc = "regs"
    /\ \E i \in -1..MaxRegs :
          result' = [op |-> "index", index |-> i,
                     value |-> getitem_int(registers, i)]
    /\ pc' = "done"
    /\ UNCHANGED <<bytes_, response, registers, off, mapping, unit,
                   transid, written, words>>

GetSlice ==
    /\ pc = "regs"
    /\ result' = [op |-> "slice", value |-> getitem_all(registers)]
    /\ pc' = "done"
    /\ UNCHANGED <<bytes_, response, registers, off, mapping, unit,
                   transid, written, words>>

(***************************************************************************)
(* Actions on a received frame: ModbusFrame.unpack and                     *)
(* ModbusFrame.data_as_registers.                                          *)
(***************************************************************************)
Unpack ==
    /\ pc = "frame"
    /\ response' = unpack(bytes_)
    /\ pc' = IF IsExc(response') THEN "failed" ELSE "unpacked"
    /\ UNCHANGED <<bytes_, registers, off, mapping, unit, result,
                   transid, written, words>>

DataAsRegisters ==
    /\ pc = "unpacked"
    /\ LET r == data_as_registers(response)
       IN  /\ result' = [op |-> "data_as_registers", value |-> r]
           /\ registers' = IF IsExc(r) THEN registers ELSE r.packed
           /\ pc' = IF IsExc(r) THEN "failed" ELSE "regs"
    /\ UNCHANGED <<bytes_, response, off, mapping, unit, transid, written,
                   words>>

(***************************************************************************)
(* SpecRegs: a register buffer behind a RegisterIface, read through        *)
(* Registers.__getitem__ and RegisterIface.get (the self-test of the       *)
(* program, over every buffer of up to MaxRegs words).                     *)
(***************************************************************************)
TestWords == {0, 1, 9, 16737, 28672, 65535}

Bases == {0, 40000}

WordSeqs(n) == UNION {[1..k -> TestWords] : k \in 0..n}

(* The octets of a sequence of registers, each big-endian. *)
RECURSIVE PackWords(_)
PackWords(ws) ==
    IF ws = <<>> THEN <<>>
    ELSE <<Head(ws) \div 256, Head(ws) % 256>> \o PackWords(Tail(ws))

InitRegs ==
    /\ words \in WordSeqs(MaxRegs)
    /\ registers = PackWords(words)
    /\ off \in Bases
    /\ result = NoResult
    /\ pc = "regs"
    /\ bytes_ = <<>>
    /\ response = None
    /\ mapping = <<>>
    /\ unit = 0
    /\ transid = 0
    /\ written = <<>>

NextRegs == Get \/ GetItem \/ GetSlice

SpecRegs == InitRegs /\ [][NextRegs]_vars

(***************************************************************************)
(* SpecStatus: the I_Status register (40107) holding any unsigned 16-bit   *)
(* word, decoded with RType.CAST(SunspecInverterStatus).                   *)
(***************************************************************************)
InitStatus ==
    /\ words \in [1..1 -> 0..65535]
    /\ registers = PackWords(words)
    /\ off = 40107
    /\ result = NoResult
    /\ pc = "regs"
    /\ bytes_ = <<>>
    /\ response = None
    /\ mapping = <<>>
    /\ unit = 0
    /\ transid = 0
    /\ written = <<>>

GetStatus ==
    /\ pc = "regs"
    /\ result' = [op |-> "get", offset |-> 40107, type_ |-> CAST,
                  value |-> get(off, registers, 40107, CAST)]
    /\ pc' = "done"
    /\ UNCHANGED <<bytes_, response, registers, off, mapping, unit,
                   transid, written, words>>

NextStatus == GetStatus

SpecStatus == InitStatus /\ [][NextStatus]_vars

(***************************************************************************)
(* SpecFrame: bytes read from the connection, parsed by unpack and then    *)
(* by data_as_registers.                                                   *)
(***************************************************************************)
PayloadOctets == {0, 2, 3, 4}

Payloads == UNION {[1..k -> PayloadOctets] : k \in 0..MaxPayload}

Headers ==
    {<<1, 1, p[1], p[2], l[1], l[2], uf[1], uf[2]>> :
        p \in {<<0, 0>>, <<0, 1>>, <<1, 0>>},
        l \in ({0} \X (0..(MaxPayload + 3))) \cup {<<1, 0>>},
        uf \in {<<1, 3>>, <<2, 131>>}}

FrameInputs ==
    {h \o p : h \in Headers, p \in Payloads}
        \cup {SubSeq(h, 1, k) : h \in Headers, k \in 0..7}

InitFrame ==
    /\ bytes_ \in FrameInputs
    /\ pc = "frame"
    /\ response = None
    /\ registers = <<>>
    /\ result = NoResult
    /\ off = 0
    /\ mapping = <<>>
    /\ unit = 0
    /\ transid = 0
    /\ written = <<>>
    /\ words = <<>>

NextFrame == Unpack \/ DataAsRegisters

SpecFrame == InitFrame /\ [][NextFrame]_vars

(***************************************************************************)
(* SpecRoundTrip: a well-formed response carrying the registers `words`,   *)
(* parsed by unpack and data_as_registers and read back with [:].          *)
(***************************************************************************)
ResponseFor(transid_, unit_, ws) ==
    pack(ModbusFrame(transid_, unit_, 3, <<2 * Len(ws)>> \o PackWords(ws))).octets

InitRoundTrip ==
    /\ words \in WordSeqs(MaxCount)
    /\ transid \in {1, 513}
    /\ unit \in {1, 2}
    /\ bytes_ = ResponseFor(transid, unit, words)
    /\ pc = "frame"
    /\ response = None
    /\ registers = <<>>
    /\ result = NoResult
    /\ off = 0
    /\ mapping = <<>>
    /\ written = <<>>

NextRoundTrip == Unpack \/ DataAsRegisters \/ GetSlice

SpecRoundTrip == InitRoundTrip /\ [][NextRoundTrip]_vars

(***************************************************************************)
(* SpecMap: SunspecRegs.mapping2dict of a register map over a buffer of    *)
(* MaxEntries registers at base 40000.  A map has up to MaxEntries fields  *)
(* at consecutive offsets, with distinct names, and its END marker; two    *)
(* more maps are malformed (empty, and without END marker).                *)
(***************************************************************************)
FieldA == <<"A">>

FieldB == <<"B">>

MapNames == {FieldA, FieldA \o SF, FieldA \o SF \o SF, FieldB}

EntryKinds == {<<U16, "W">>, <<I16>>, <<U32>>, <<STR(2)>>}

MapWords == {10, 65526, 65535}

InjSeqs(S, k) ==
    {f \in [1..k -> S] : \A i, j \in 1..k : i # j => f[i] # f[j]}

MakeMap(ns, ks) ==
    [i \in 1..Len(ns) |-> <<40000 + i - 1, ns[i]>> \o ks[i]]
        \o << <<40000 + Len(ns)>> >>

TestMaps ==
    UNION {{MakeMap(ns, ks) : ns \in InjSeqs(MapNames, k),
                              ks \in [1..k -> EntryKinds]} :
              k \in 0..MaxEntries}
        \cup {<<>>, << <<40000, FieldA, U16>> >>}

InitMap ==
    /\ mapping \in TestMaps
    /\ words \in [1..MaxEntries -> MapWords]
    /\ registers = PackWords(words)
    /\ off = 40000
    /\ pc = "map"
    /\ result = NoResult
    /\ bytes_ = <<>>
    /\ response = None
    /\ unit = 0
    /\ transid = 0
    /\ written = <<>>

Resolve ==
    /\ pc = "map"
    /\ result' = [op |-> "mapping2dict",
                  value |-> mapping2dict(off, registers, mapping)]
    /\ pc' = "done"
    /\ UNCHANGED <<bytes_, response, registers, off, mapping, unit,
                   transid, written, words>>

NextMap == Resolve

SpecMap == InitMap /\ [][NextMap]_vars

(***************************************************************************)
(* Spec: a SunspecModbusTcpAsyncio session running get_from_mapping up to  *)
(* MaxCycles times.  The coroutine has two steps: up to the write of the   *)
(* request, and from the bytes the reader returns to the record.           *)
(***************************************************************************)
I_Status == <<"I", "_", "S", "t", "a", "t", "u", "s">>

STATUS_ONLY == << <<40107, I_Status, CAST>>, <<40108>> >>

END_BEFORE_START == << <<40085, I_AC_Power, U16>>, <<40083>> >>

CycleMaps ==
    {SUNSPEC_INVERTER_MODEL_ONLY_AC_POWER, STATUS_ONLY, END_BEFORE_START, <<>>}

CycleWords == {4, 9, 1980, 65535}

(* What the reader may return for the request of (mapping_, unit_) with    *)
(* transaction id t: a response with the registers asked for, echoing t    *)
(* or another id; a Modbus exception response; nothing (end of stream).    *)
Responses(mapping_, unit_, t) ==
    LET count == mapping_[Len(mapping_)][1] - mapping_[1][1]
    IN  {ResponseFor(t2, unit_, ws) :
            t2 \in {t, t + 1, t + 256}, ws \in [1..count -> CycleWords]}
        \cup {pack(ModbusFrame(t, unit_, 131, <<2>>)).octets, <<>>}

Init ==
    /\ pc = "idle"
    /\ transid = 0
    /\ written = <<>>
    /\ mapping = <<>>
    /\ unit = 1
    /\ bytes_ = <<>>
    /\ response = None
    /\ registers = <<>>
    /\ off = 0
    /\ result = NoResult
    /\ words = <<>>

(* get_from_mapping up to writer.write(request.pack()). *)
GetFromMappingSend ==
    /\ pc = "idle"
    /\ transid < MaxCycles
    /\ \E m \in CycleMaps, u \in {1, 2} :
          /\ mapping' = m
          /\ unit' = u
          /\ IF m = <<>>
             THEN /\ result' = [op |-> "cycle", value |-> Raise("IndexError")]
                  /\ UNCHANGED <<transid, written, pc>>
             ELSE LET first_reg == m[1][1]
                      eof_reg   == m[Len(m)][1]
                      count     == eof_reg - first_reg
                      request   == read_multiple_registers(
                                       transid + 1, u, first_reg, count)
                      sent      == pack(request)
                  IN  /\ transid' = transid + 1
                      /\ IF IsExc(request)
                         THEN /\ result' = [op |-> "cycle", value |-> request]
                              /\ UNCHANGED <<written, pc>>
                         ELSE IF IsExc(sent)
                         THEN /\ result' = [op |-> "cycle", value |-> sent]
                              /\ UNCHANGED <<written, pc>>
                         ELSE /\ written' = Append(written, sent.octets)
                              /\ result' = NoResult
                              /\ pc' = "await"
    /\ bytes_' = <<>>
    /\ response' = None
    /\ registers' = <<>>
    /\ UNCHANGED <<off, words>>

(* get_from_mapping from the return of reader.read(4096) on. *)
GetFromMappingRecv ==
    /\ pc = "await"
    /\ \E b \in Responses(mapping, unit, transid) :
          LET first_reg == mapping[1][1]
              resp == unpack(b)
              regs == IF IsExc(resp) THEN resp ELSE data_as_registers(resp)
              dict == IF IsExc(regs) THEN regs
                      ELSE mapping2dict(first_reg, regs.packed, mapping)
          IN  /\ bytes_' = b
              /\ response' = resp
              /\ registers' = IF IsExc(regs) THEN <<>> ELSE regs.packed
              /\ off' = IF IsExc(regs) THEN off ELSE first_reg
              /\ result' = [op |-> "cycle", value |-> dict]
    /\ pc' = "idle"
    /\ UNCHANGED <<mapping, unit, transid, written, words>>

Next == GetFromMappingSend \/ GetFromMappingRecv

Spec == Init /\ [][Next]_vars

(* The number of registers in the buffer and the register index of a get. *)
NRegs == Len(words)

GetIndex == result.offset - off

IsGet(type_) == result.op = "get" /\ result.type_ = type_

FieldInside ==
    /\ GetIndex >= 0
    /\ 2 * GetIndex + result.type_.len <= 2 * NRegs

(* C3 (as stated): a get whose register range is not entirely inside      *)
(* [base, base + length/2) of the buffer fails, for every decoder; it      *)
(* never yields a value.                                                   *)
C3_OutOfRangeFails ==
    (result.op = "get" /\ ~FieldInside) => IsExc(result.value)

C10_BigEndianAtOffset ==
    /\ (result.op = "index" /\ result.index \in 0..(NRegs - 1)) =>
           result.value = IntOf(words[result.index + 1])
    /\ result.op = "slice" =>
           result.value = PyTuple([k \in 1..NRegs |-> IntOf(words[k])])
    /\ (IsGet(U16) /\ FieldInside) =>
           result.value = IntOf(words[GetIndex + 1])
    /\ (IsGet(U32) /\ FieldInside) =>
           result.value = PyInt(words[GetIndex + 1], words[GetIndex + 2])

C10_Witness ==
    /\ words = <<16737, 28672>>
    /\ off = 40000
    /\ IsGet(U32)
    /\ result.offset = 40000
    /\ result.value = PyInt(16737, 28672)

(***************************************************************************)
(* Claims about the frame codec (SpecFrame, SpecRoundTrip).                *)
(***************************************************************************)
Unpacked == response # None

Parsed == result.op = "data_as_registers"

(* C1 (as stated): data_as_registers fails for every payload that is       *)
(* empty, whose first octet N is odd, or that has fewer than N octets      *)
(* after the first; in every other case it returns a register buffer       *)
(* holding exactly the N octets that follow the byte count.                *)
C1_DataAsRegisters ==
    Parsed =>
        LET data == response.data
        IN  IF data = <<>> \/ data[1] % 2 = 1 \/ Len(data) - 1 < data[1]
            THEN IsExc(result.value)
            ELSE /\ ~IsExc(result.value)
                 /\ result.value.packed = SubSeq(data, 2, 1 + data[1])

(* C2: unpack fails for every input of fewer than 8 octets, with a         *)
(* protocol id (octets 2 and 3) that is not zero, or whose declared data   *)
(* length (octets 4-5, big-endian) is less than 2 or greater than the      *)
(* input length minus 6; every other input yields unit id = octet 6,       *)
(* function code = octet 7 and payload = the octets from index 8 on.       *)
C2_UnpackValidates ==
    Unpacked =>
        LET b == bytes_
        IN  IF Len(b) < 8 THEN IsExc(response)
            ELSE IF b[3] # 0 \/ b[4] # 0 THEN IsExc(response)
            ELSE IF b[5] * 256 + b[6] < 2 \/ b[5] * 256 + b[6] > Len(b) - 6
            THEN IsExc(response)
            ELSE /\ response.kind = "frame"
                 /\ response.unitid = b[7]
                 /\ response.funccode = b[8]
                 /\ response.data = SubSeq(b, 9, Len(b))

(* A parsed frame whose payload runs past the declared data length. *)
C2_Witness ==
    /\ Unpacked
    /\ ~IsExc(response)
    /\ Len(bytes_) > 6 + bytes_[5] * 256 + bytes_[6]
    /\ response.unitid = 2
    /\ response.funccode = 131
    /\ response.data = <<2, 0, 4>>

(* C7: for every sequence of count registers, unpack and then              *)
(* data_as_registers of the well-formed response (header, unit, function   *)
(* 3, byte count 2 * count, the registers big-endian) succeed, and the     *)
(* slice [:] of the register buffer is exactly those registers in order.   *)
C7_RoundTrip ==
    /\ pc # "failed"
    /\ pc = "done" =>
           result = [op |-> "slice",
                     value |-> PyTuple([k \in 1..Len(words) |-> IntOf(words[k])])]

C7_Witness ==
    /\ pc = "done"
    /\ words = <<16737, 28672, 65535>>
    /\ result.value = PyTuple(<<IntOf(16737), IntOf(28672), IntOf(65535)>>)

(***************************************************************************)
(* Claims about the map resolver (SpecMap).                                *)
(***************************************************************************)
Resolved == result.op = "mapping2dict"

IsRecord == Resolved /\ result.value.kind = "dict"

WellFormedMap == mapping # <<>> /\ Len(mapping[Len(mapping)]) = 1

(* The fields of the map: its entries before the END marker. *)
Fields == 1..(Len(mapping) - 1)

FieldName(i) == mapping[i][2]

HasSuffixSF(name) ==
    /\ Len(name) >= 3
    /\ name[Len(name) - 2] = "_"
    /\ name[Len(name) - 1] = "S"
    /\ name[Len(name)] = "F"

Declared(name) == \E i \in Fields : FieldName(i) = name

RECURSIVE PlainNames(_)
PlainNames(i) ==
    IF i > Len(mapping) - 1 THEN <<>>
    ELSE (IF HasSuffixSF(FieldName(i)) THEN <<>> ELSE <<FieldName(i)>>)
             \o PlainNames(i + 1)

(* C4: a record returned by SunspecRegs.mapping2dict has no key ending in  *)
(* _SF, and its keys are the map's other field names in declaration        *)
(* order; a map with an X_SF entry but no X entry yields a failure.        *)
C4_NoScaleFactorKeys ==
    Resolved =>
        /\ ~WellFormedMap => IsExc(result.value)
        /\ IsRecord =>
              /\ \A k \in 1..Len(result.value.items) :
                    ~HasSuffixSF(result.value.items[k].key)
              /\ DictKeys(result.value.items) = PlainNames(1)
        /\ (WellFormedMap /\ \E i \in Fields :
               /\ HasSuffixSF(FieldName(i))
               /\ ~Declared(SubSeq(FieldName(i), 1, Len(FieldName(i)) - 3)))
             => IsExc(result.value)

(* A record of a map that declares A, A_SF and B. *)
C4_Witness ==
    /\ IsRecord
    /\ Len(mapping) = 4
    /\ Declared(FieldA \o SF)
    /\ DictKeys(result.value.items) = <<FieldB, FieldA>>

(* The raw value of field i, the integer a scale factor decodes to, and    *)
(* the resolved value of a key.                                            *)
Raw(i) == get(off, registers, mapping[i][1], mapping[i][3])

IsExponent(v) ==
    /\ v.kind = "int"
    /\ v.hi \in {-1, 0}
    /\ v.hi * 65536 + v.lo \in -10..10

ResolvedValue(name) == DictGet(result.value.items, name)

RECURSIVE Normal(_, _)
Normal(digits, exp) ==
    IF Len(digits) > 1 /\ digits[Len(digits)] = 0
    THEN Normal(SubSeq(digits, 1, Len(digits) - 1), exp + 1)
    ELSE IF digits = <<0>> THEN <<digits, 0>>
    ELSE <<digits, exp>>

(* The Decimal d is exactly v * 10^e, for an int v. *)
EqualsScaled(d, v, e) ==
    /\ d.kind = "dec"
    /\ ~d.inexact
    /\ Normal(d.digits, d.exp) = Normal(WideDigits(Mag(v)), e)
    /\ (d.digits # <<0>> => d.neg = (v.hi < 0))

UnitKept(d, i) ==
    Len(mapping[i]) = 4 =>
        d.kind = "dec" /\ d.cls = "DecimalWithUnit" /\ d.unit = mapping[i][4]

(* The fields X and X_SF of the claim: X has an integer raw value and the  *)
(* sibling decodes to an exponent in [-10, 10].                            *)
ScaledPair(i, j) ==
    /\ FieldName(j) = FieldName(i) \o SF
    /\ Raw(i).kind = "int"
    /\ IsExponent(Raw(j))
    /\ DictHas(result.value.items, FieldName(i))

Unscaled(i) ==
    /\ ~Declared(FieldName(i) \o SF)
    /\ Raw(i).kind = "int"
    /\ DictHas(result.value.items, FieldName(i))

KeepsRaw(i) ==
    LET d == ResolvedValue(FieldName(i))
    IN  /\ (d.kind = "int" => d = Raw(i))
        /\ (d.kind # "int" => EqualsScaled(d, Raw(i), 0))
        /\ UnitKept(d, i)

(* C8 (as stated): for every field X with raw integer value V whose        *)
(* sibling X_SF decodes to an exponent E in [-10, 10], the resolved X is   *)
(* exactly V * 10^E and carries X's unit when the map declares one; a      *)
(* field with no _SF sibling keeps its raw value.                          *)
C8_ScaleExact ==
    IsRecord =>
        /\ \A i, j \in Fields : ScaledPair(i, j) =>
              /\ EqualsScaled(ResolvedValue(FieldName(i)), Raw(i),
                              Raw(j).hi * 65536 + Raw(j).lo)
              /\ UnitKept(ResolvedValue(FieldName(i)), i)
        /\ \A i \in Fields : Unscaled(i) => KeepsRaw(i)

(* C8 (amended): the same, for the fields X whose sibling X_SF is not      *)
(* itself the target of an X_SF_SF entry of the map.                       *)
C8_ScaleExactUnchained ==
    IsRecord =>
        /\ \A i, j \in Fields :
              (ScaledPair(i, j) /\ ~Declared(FieldName(j) \o SF)) =>
                  /\ EqualsScaled(ResolvedValue(FieldName(i)), Raw(i),
                                  Raw(j).hi * 65536 + Raw(j).lo)
                  /\ UnitKept(ResolvedValue(FieldName(i)), i)
        /\ \A i \in Fields : Unscaled(i) => KeepsRaw(i)

(* A = 65526 W with A_SF = -10 resolves to 0.0000065526 W. *)
C8_Witness ==
    /\ IsRecord
    /\ mapping = << <<40000, FieldA, U16, "W">>,
                    <<40001, FieldA \o SF, I16>>, <<40002>> >>
    /\ words[1] = 65526
    /\ words[2] = 65526
    /\ ResolvedValue(FieldA) =
           Dec("DecimalWithUnit", "W", FALSE, <<6, 5, 5, 2, 6>>, -10, FALSE)

(***************************************************************************)
(* Claims about the request/response cycle (Spec).                         *)
(***************************************************************************)
Decoded == result.op = "cycle" /\ result.value.kind = "dict"

(* C5 (as stated): a response is decoded into a record only if the 16-bit  *)
(* transaction id in its first two octets equals the transaction id of     *)
(* the request just sent; any other id makes the cycle fail.               *)
C5_TransactionEcho ==
    Decoded => bytes_[1] * 256 + bytes_[2] = transid

(* The 12 octets of a read-holding-registers request. *)
ReadRequest(t, u, start, count) ==
    <<t \div 256, t % 256, 0, 0, 0, 6, u, 3,
      start \div 256, start % 256, count \div 256, count % 256>>

(* C9: a decode cycle writes exactly one request before it reads the       *)
(* response: the 12-octet read-holding-registers frame with the session's  *)
(* transaction id, protocol id 0, length 6, the unit id, function 3,       *)
(* start = the map's first entry offset and count = sentinel offset minus  *)
(* first entry offset; the step that reads the response writes nothing     *)
(* and resolves the map against a buffer based at the first entry offset.  *)
(* A step that leaves the session idle (a failed send, a read) writes      *)
(* nothing either.                                                         *)
C9_OneRequestPerCycle ==
    [][/\ pc' = "await" =>
              /\ pc = "idle"
              /\ written' = Append(written,
                     ReadRequest(transid', unit', mapping'[1][1],
                         mapping'[Len(mapping')][1] - mapping'[1][1]))
       /\ pc = "await" =>
              /\ pc' = "idle"
              /\ written' = written
              /\ Decoded' => off' = mapping[1][1]
       /\ pc' = "idle" => written' = written]_vars

(* The request of the AC-power map, written and awaiting its response. *)
C9_Witness ==
    /\ pc = "await"
    /\ mapping = SUNSPEC_INVERTER_MODEL_ONLY_AC_POWER
    /\ written = << <<0, 1, 0, 0, 0, 6, 1, 3, 156, 147, 0, 2>> >>

====
